---- MODULE Spec2Model ----
(***************************************************************************)
(* Decoder-only chatbot (Project 3/02_decoder_chatbot).                    *)
(*                                                                         *)
(*   dataset.py  QADataset: builds (source, target, key_padding_mask)      *)
(*               from a (question, answer) row.                            *)
(*   model.py    TransformerModel: embedding, positional encoding, a stack *)
(*               of causal DecoderBlocks, output projection.               *)
(*                                                                         *)
(* Python lists and tensors are 0-based; the sequences below are 1-based,  *)
(* so position i of the code is element i + 1 here.                        *)
(***************************************************************************)
EXTENDS Integers, Sequences, FiniteSets, TLC

VARIABLES
    \* QADataset (dataset.py)
    dataset,        \* self.dataset: the rows, each a question and an answer text
    max_length,     \* self.max_length
    pad_id,         \* self.pad_id
    sep_id,         \* self.sep_id
    end_id,         \* self.end_id
    item,           \* the dict returned by the last __getitem__ call, with its idx
    first,          \* idx -> the triple returned by the first __getitem__(idx)
    repeated,       \* whether the last __getitem__ was for an idx asked before
    \* TransformerModel (model.py)
    max_len,        \* self.max_len
    num_layers,     \* self.num_layers = len(self.layers)
    causal_mask,    \* the registered buffer "causal_mask"
    pc,             \* position inside TransformerModel.forward
    layer,          \* number of DecoderBlocks already applied
    attn_mask,      \* forward's local attn_mask
    padding_mask,   \* forward's argument padding_mask
    xA, xB,         \* forward's argument x, in two runs of the same model
    hA, hB,         \* forward's local x (the hidden states) in the two runs
    calls           \* the arguments each DecoderBlock.forward was called with

dsVars == <<dataset, max_length, pad_id, sep_id, end_id, item, first, repeated>>
mdVars == <<max_len, num_layers, causal_mask, pc, layer, attn_mask,
            padding_mask, xA, xB, hA, hB, calls>>
vars == <<dataset, max_length, pad_id, sep_id, end_id, item, first, repeated,
          max_len, num_layers, causal_mask, pc, layer, attn_mask,
          padding_mask, xA, xB, hA, hB, calls>>

----------------------------------------------------------------------------
(* Bounds *)

\* most tokens in a row's question and answer together
MaxRowLen == 3
\* largest config.max_len given to the dataset
MaxLen == 3
\* largest config.max_len given to the model
MaxModelLen == 3
\* largest config.num_layers
MaxLayers == 2

----------------------------------------------------------------------------
(* The tokenizer (external): a fixed vocabulary, one id per token.  A text *)
(* is the sequence of vocabulary tokens it is split into; a text may spell *)
(* a special token, which the tokenizer then maps to that token's id.      *)

Vocabulary == <<"[PAD]", "[SEP]", "[END]", "w">>

pad_token == "[PAD]"
sep_token == "[SEP]"
end_token == "[END]"

\* tokenizer.token_to_id
TokenToId(tok) == (CHOOSE i \in 1..Len(Vocabulary) : Vocabulary[i] = tok) - 1

\* tokenizer.encode(text).ids
Encode(text) == [i \in 1..Len(text) |-> TokenToId(text[i])]

\* the tokens a row's text is made of
Words == {"w", "[PAD]"}

SeqsUpTo(S, n) == UNION {[1..k -> S] : k \in 0..n}

Texts == SeqsUpTo(Words, MaxRowLen)

Rows == {r \in [question : Texts, answer : Texts] :
            Len(r.question) + Len(r.answer) <= MaxRowLen}

\* target value the loss ignores
IgnoreIndex == -100

----------------------------------------------------------------------------
(* Python list and tensor primitives *)

\* lst[-n:]: the last n elements instead of the first
TakeLast(lst, n) ==
    SubSeq(lst, IF n < Len(lst) THEN Len(lst) - n + 1 ELSE 1, Len(lst))

\* lst[:n]
Take(lst, n) == SubSeq(lst, 1, IF n < Len(lst) THEN n ELSE Len(lst))

\* [v] * n
Repeat(v, n) == [i \in 1..(IF n > 0 THEN n ELSE 0) |-> v]

\* A tensor is a view [buf, off, len] onto a buffer of the memory mem.
View(buf, off, len) == [buf |-> buf, off |-> off, len |-> len]

\* the elements a view shows
Read(mem, v) == [i \in 1..v.len |-> mem[v.buf][v.off + i]]

\* t[a:b] on a view: shares the buffer
Slice(v, a, b) == View(v.buf, v.off + a, b - a)

\* a clone that is left out: the result shares the buffer
CloneAlias(mem, v) == [mem |-> mem, view |-> v]

\* t.clone(): a fresh buffer holding the view's elements
Clone(mem, v) ==
    [mem  |-> [b \in DOMAIN mem \cup {"clone"} |->
                  IF b = "clone" THEN Read(mem, v) ELSE mem[b]],
     view |-> View("clone", 0, v.len)]

\* t[mask] = val
IndexPut(mem, v, mask, val) ==
    [mem EXCEPT ![v.buf] =
        [k \in 1..Len(mem[v.buf]) |->
            IF k - v.off \in 1..v.len /\ mask[k - v.off] THEN val
            ELSE mem[v.buf][k]]]

\* t != val, elementwise
NeMask(mem, v, val) == [i \in 1..v.len |-> Read(mem, v)[i] # val]

\* t == val, elementwise
EqMask(mem, v, val) == [i \in 1..v.len |-> Read(mem, v)[i] = val]

----------------------------------------------------------------------------
(* QADataset.__getitem__, step by step *)

\* the full sequence with the separator left out
FullSequenceNoSep(question_ids, answer_ids) ==
    question_ids \o answer_ids \o <<end_id>>

\* step 2: question_ids + [sep_id] + answer_ids + [end_id]
FullSequence(question_ids, answer_ids) ==
    question_ids \o <<sep_id>> \o answer_ids \o <<end_id>>

\* padding without the truncation
PaddedNoTruncate(full_sequence) ==
    IF Len(full_sequence) < max_length + 1
    THEN full_sequence \o Repeat(pad_id, max_length + 1 - Len(full_sequence))
    ELSE full_sequence

\* step 3: truncate / pad to max_length + 1
Padded(full_sequence) ==
    LET padded == Take(full_sequence, max_length + 1)
    IN  IF Len(padded) < max_length + 1
        THEN padded \o Repeat(pad_id, max_length + 1 - Len(padded))
        ELSE padded

\* steps 4 and 5 on the tensor made of padded
BuildItem(padded) ==
    LET mem0   == [p \in {"padded"} |-> padded]
        whole  == View("padded", 0, Len(padded))
        source == Slice(whole, 0, Len(padded) - 1)
        cl     == Clone(mem0, Slice(whole, 1, Len(padded)))
        target == cl.view
        mem1   == IndexPut(cl.mem, target, EqMask(cl.mem, source, pad_id),
                           IgnoreIndex)
    IN  [source_sequence  |-> Read(mem1, source),
         target_sequence  |-> Read(mem1, target),
         key_padding_mask |-> EqMask(mem1, source, pad_id)]

QuestionIds(idx) == Encode(dataset[idx].question)
AnswerIds(idx) == Encode(dataset[idx].answer)
FullOf(idx) == FullSequence(QuestionIds(idx), AnswerIds(idx))
PaddedOf(idx) == Padded(FullOf(idx))

GetItemResult(idx) == BuildItem(PaddedOf(idx))

NoItem == [idx |-> 0]

\* __getitem__ with self.max_length + 1 written back to self.max_length
GetItemGrowing(idx) ==
    /\ idx \in 1..Len(dataset)
    /\ item' = [idx |-> idx] @@ GetItemResult(idx)
    /\ first' = IF idx \in DOMAIN first THEN first
                ELSE (idx :> GetItemResult(idx)) @@ first
    /\ repeated' = (idx \in DOMAIN first)
    /\ max_length' = max_length + 1
    /\ UNCHANGED <<dataset, pad_id, sep_id, end_id>>
    /\ UNCHANGED mdVars

\* QADataset.__getitem__(idx)
GetItem(idx) ==
    /\ idx \in 1..Len(dataset)
    /\ item' = [idx |-> idx] @@ GetItemResult(idx)
    /\ first' = IF idx \in DOMAIN first THEN first
                ELSE (idx :> GetItemResult(idx)) @@ first
    /\ repeated' = (idx \in DOMAIN first)
    /\ UNCHANGED <<dataset, max_length, pad_id, sep_id, end_id>>
    /\ UNCHANGED mdVars

----------------------------------------------------------------------------
(* TransformerModel *)

\* torch.ones(n, n)
Ones(n) == [i \in 1..n |-> [j \in 1..n |-> 1]]

\* torch.triu(m, diagonal): keeps the entries with j - i >= diagonal
Triu(m, diagonal) ==
    [i \in 1..Len(m) |-> [j \in 1..Len(m) |->
        IF j - i >= diagonal THEN m[i][j] ELSE 0]]

\* tensor.bool()
Bool(m) == [i \in 1..Len(m) |-> [j \in 1..Len(m) |-> m[i][j] # 0]]

\* torch.tril(m, diagonal): keeps the entries with j - i <= diagonal
Tril(m, diagonal) ==
    [i \in 1..Len(m) |-> [j \in 1..Len(m) |->
        IF j - i <= diagonal THEN m[i][j] ELSE 0]]

\* the mask taken from the lower triangle: blocks the earlier positions
GenerateCausalMaskTril(seq_len) == Bool(Tril(Ones(seq_len), -1))

\* the mask with the diagonal blocked as well
GenerateCausalMaskDiag0(seq_len) == Bool(Triu(Ones(seq_len), 0))

\* TransformerModel.generate_causal_mask
GenerateCausalMask(seq_len) == Bool(Triu(Ones(seq_len), 1))

\* m[:n, :n]
Trim(m, n) == [i \in 1..n |-> [j \in 1..n |-> m[i][j]]]

\* padding_mask=None
None == <<>>

\* token ids a batch row is made of
Tokens == {0, 1}

(* The layers hold learned weights; their outputs are kept as terms over   *)
(* the inputs, so two outputs are equal exactly when they are built the    *)
(* same way from equal inputs, whatever the weights are.                   *)

\* self.embedding(x)
Embedding(x) == [i \in 1..Len(x) |-> <<"embedding", x[i]>>]

\* PositionalEncoding.forward: x + pe[:, :seq_len, :]
PosEncoder(h) == [i \in 1..Len(h) |-> <<"pos", i, h[i]>>]

\* nn.Dropout with dropout disabled
Dropout(h) == h

\* whether query position i attends to key position j in self.attn(...,
\* attn_mask, key_padding_mask, need_weights=False, is_causal=True): without a
\* key padding mask the is_causal hint stands for the mask; with one, the
\* attention mask and the key padding mask are merged
Visible(i, j, am, pm) ==
    IF pm = None THEN j <= i
    ELSE ~am[i][j] /\ ~pm[j]

\* DecoderBlock.forward of the k-th layer
DecoderBlock(k, h, am, pm) ==
    LET attended ==
            [i \in 1..Len(h) |->
                <<"attn", k, h[i],
                  [j \in 1..Len(h) |-> IF Visible(i, j, am, pm) THEN h[j] ELSE <<>>]>>]
    IN  [i \in 1..Len(h) |-> <<"mlp", k, attended[i]>>]

\* self.fc_out(x)
FcOut(h) == [i \in 1..Len(h) |-> <<"fc_out", h[i]>>]

ModelIdle ==
    /\ pc = "idle" /\ layer = 0
    /\ attn_mask = <<>> /\ padding_mask = None
    /\ xA = <<>> /\ xB = <<>> /\ hA = <<>> /\ hB = <<>> /\ calls = <<>>

\* TransformerModel.__init__
ModelInit(n, l) ==
    /\ max_len = n
    /\ num_layers = l
    /\ causal_mask = GenerateCausalMask(n)
    /\ ModelIdle

mdConfig == <<max_len, num_layers, causal_mask>>

\* forward is entered with a batch row x (one per run) and a padding mask;
\* the causal mask is trimmed to seq_len
Forward(a, b, pm) ==
    /\ pc = "idle"
    /\ Len(a) \in 1..max_len /\ Len(b) = Len(a)
    /\ pm = None \/ Len(pm) = Len(a)
    /\ xA' = a /\ xB' = b /\ padding_mask' = pm
    /\ attn_mask' = Trim(causal_mask, Len(a))
    /\ hA' = a /\ hB' = b
    /\ layer' = 0 /\ calls' = <<>>
    /\ pc' = "embedding"
    /\ UNCHANGED mdConfig /\ UNCHANGED dsVars

\* x = self.embedding(x)
Embed ==
    /\ pc = "embedding"
    /\ hA' = Embedding(hA) /\ hB' = Embedding(hB)
    /\ calls' = Append(calls, [op |-> "embedding"])
    /\ pc' = "pos_encoder"
    /\ UNCHANGED <<layer, attn_mask, padding_mask, xA, xB>>
    /\ UNCHANGED mdConfig /\ UNCHANGED dsVars

\* x = self.pos_encoder(x)
PosEncode ==
    /\ pc = "pos_encoder"
    /\ hA' = PosEncoder(hA) /\ hB' = PosEncoder(hB)
    /\ calls' = Append(calls, [op |-> "pos_encoder"])
    /\ pc' = "dropout"
    /\ UNCHANGED <<layer, attn_mask, padding_mask, xA, xB>>
    /\ UNCHANGED mdConfig /\ UNCHANGED dsVars

\* x = self.dropout(x)
DropoutStep ==
    /\ pc = "dropout"
    /\ hA' = Dropout(hA) /\ hB' = Dropout(hB)
    /\ calls' = Append(calls, [op |-> "dropout"])
    /\ pc' = "layers"
    /\ UNCHANGED <<layer, attn_mask, padding_mask, xA, xB>>
    /\ UNCHANGED mdConfig /\ UNCHANGED dsVars

\* one turn of: for layer in self.layers: x = layer(x, attn_mask, padding_mask)
LayerStep ==
    /\ pc = "layers"
    /\ layer < num_layers
    /\ hA' = DecoderBlock(layer + 1, hA, attn_mask, padding_mask)
    /\ hB' = DecoderBlock(layer + 1, hB, attn_mask, padding_mask)
    /\ calls' = Append(calls, [op |-> "layer", layer |-> layer + 1,
                               attn_mask |-> attn_mask,
                               padding_mask |-> padding_mask])
    /\ layer' = layer + 1
    /\ UNCHANGED <<pc, attn_mask, padding_mask, xA, xB>>
    /\ UNCHANGED mdConfig /\ UNCHANGED dsVars

\* return self.fc_out(x)
Project ==
    /\ pc = "layers"
    /\ layer = num_layers
    /\ hA' = FcOut(hA) /\ hB' = FcOut(hB)
    /\ calls' = Append(calls, [op |-> "fc_out"])
    /\ pc' = "done"
    /\ UNCHANGED <<layer, attn_mask, padding_mask, xA, xB>>
    /\ UNCHANGED mdConfig /\ UNCHANGED dsVars

\* the caller has the logits; the model is ready for the next batch
Return ==
    /\ pc = "done"
    /\ pc' = "idle" /\ layer' = 0
    /\ attn_mask' = <<>> /\ padding_mask' = None
    /\ xA' = <<>> /\ xB' = <<>> /\ hA' = <<>> /\ hB' = <<>> /\ calls' = <<>>
    /\ UNCHANGED mdConfig /\ UNCHANGED dsVars

\* QADataset.__init__
DatasetInit(rows, n) ==
    /\ dataset = rows
    /\ max_length = n
    /\ pad_id = TokenToId(pad_token)
    /\ sep_id = TokenToId(sep_token)
    /\ end_id = TokenToId(end_token)
    /\ item = NoItem
    /\ first = <<>>
    /\ repeated = FALSE

(* The dataset on its own: a model that is never called. *)

Init ==
    /\ \E rows \in [1..2 -> Rows], n \in 1..MaxLen : DatasetInit(rows, n)
    /\ ModelInit(1, 0)

Next == \E idx \in 1..Len(dataset) : GetItem(idx)

Spec == Init /\ [][Next]_vars

(* The model on its own: a dataset that is never read. *)

EmptyRow == [question |-> <<>>, answer |-> <<>>]

InitModel ==
    /\ DatasetInit([i \in 1..2 |-> EmptyRow], 1)
    /\ \E n \in 1..MaxModelLen, l \in 0..MaxLayers : ModelInit(n, l)

\* the batch rows of seq_len n
Batches(n) == [1..n -> Tokens]

\* the padding masks a batch row of seq_len n may come with
PaddingMasks(n) == {None} \cup [1..n -> BOOLEAN]

NextModel ==
    \/ /\ pc = "idle"
       /\ \E n \in 1..max_len :
            \E a \in Batches(n), b \in Batches(n), pm \in PaddingMasks(n) :
                Forward(a, b, pm)
    \/ Embed
    \/ PosEncode
    \/ DropoutStep
    \/ LayerStep
    \/ Project
    \/ Return

SpecModel == InitModel /\ [][NextModel]_vars

----------------------------------------------------------------------------
(* Properties of QADataset.__getitem__ *)

Returned == item.idx # 0

Triple(it) == [source_sequence  |-> it.source_sequence,
               target_sequence  |-> it.target_sequence,
               key_padding_mask |-> it.key_padding_mask]

\* len(question_ids) + len(answer_ids) + 2 of the last call
FullLen == Len(FullOf(item.idx))

\* neither token list of the last call contains pad_id
NoPadToken ==
    /\ \A i \in 1..Len(QuestionIds(item.idx)) : QuestionIds(item.idx)[i] # pad_id
    /\ \A i \in 1..Len(AnswerIds(item.idx)) : AnswerIds(item.idx)[i] # pad_id

\* C1: whatever the lengths of the question and the answer (empty, or longer
\* together than max_length), source_sequence, target_sequence and
\* key_padding_mask each have exactly max_length elements.
C1_FixedLength ==
    Returned =>
        /\ Len(item.source_sequence) = max_length
        /\ Len(item.target_sequence) = max_length
        /\ Len(item.key_padding_mask) = max_length

\* an item was built from a row longer than max_length + 1 with an empty answer
C1_Witness ==
    /\ Returned
    /\ FullLen > max_length + 1
    /\ Len(AnswerIds(item.idx)) = 0
    /\ Len(item.source_sequence) = max_length

\* C2: key_padding_mask[i] is True exactly at the positions that hold a filler
\* added by the padding step, i >= len(question_ids) + len(answer_ids) + 2
\* (0-based), for any token lists over the vocabulary.
C2_MaskMarksExactlyFillers ==
    Returned =>
        \A i \in 1..max_length : item.key_padding_mask[i] <=> (i > FullLen)

\* C4 as stated: the (max_length + 1)-element sequence always holds sep_id
\* right after the question tokens and end_id right after the answer tokens.
C4_AlwaysCarriesSpecialTokens ==
    Returned =>
        LET padded == PaddedOf(item.idx)
            nq     == Len(QuestionIds(item.idx))
        IN  /\ nq + 1 <= Len(padded) /\ padded[nq + 1] = sep_id
            /\ FullLen <= Len(padded) /\ padded[FullLen] = end_id

\* C4 as amended: the untruncated sequence holds sep_id right after the
\* question tokens and end_id right after the answer tokens, and the
\* (max_length + 1)-element sequence holds each of them at that place
\* whenever the place lies within its first max_length + 1 positions.
C4_CarriesSpecialTokensUnlessCut ==
    Returned =>
        LET full   == FullOf(item.idx)
            padded == PaddedOf(item.idx)
            nq     == Len(QuestionIds(item.idx))
        IN  /\ full[nq + 1] = sep_id
            /\ full[FullLen] = end_id
            /\ Len(padded) = max_length + 1
            /\ nq + 1 <= max_length + 1 => padded[nq + 1] = sep_id
            /\ FullLen <= max_length + 1 => padded[FullLen] = end_id

\* an item whose separator survived the truncation and whose end token did not
C4_Witness ==
    /\ Returned
    /\ Len(QuestionIds(item.idx)) + 1 <= max_length + 1
    /\ FullLen > max_length + 1
    /\ PaddedOf(item.idx)[Len(QuestionIds(item.idx)) + 1] = sep_id

\* C5: a call changes neither the rows nor max_length, pad_id, sep_id, end_id,
\* and a call with an idx asked before returns the triple the first call with
\* that idx returned.
C5_DeterministicNoSideEffect ==
    [][/\ dataset' = dataset
       /\ max_length' = max_length
       /\ pad_id' = pad_id /\ sep_id' = sep_id /\ end_id' = end_id
       /\ item'.idx \in DOMAIN first => Triple(item') = first[item'.idx]]_vars

\* an idx was asked again after both indices had been asked
C5_Witness ==
    /\ Returned
    /\ repeated
    /\ DOMAIN first = {1, 2}
    /\ Triple(item) = first[item.idx]

\* C6: no element of target_sequence equals pad_id; every target position
\* whose next-token value is a padding filler is -100.  (Stated for the rows
\* whose texts hold no pad token, where every pad_id is a filler.)
C6_NoPadInTarget ==
    (Returned /\ NoPadToken) =>
        \A i \in 1..max_length :
            /\ item.target_sequence[i] # pad_id
            /\ i + 1 > FullLen => item.target_sequence[i] = IgnoreIndex

\* C7: source_sequence[i] = padded[i]; target_sequence[i] is -100 where
\* source_sequence[i] is pad_id and padded[i+1] elsewhere; so an unmasked
\* target_sequence[i] is source_sequence[i+1], and masking the target leaves
\* the source as it was.
C7_TargetIsShiftedSource ==
    Returned =>
        LET padded == PaddedOf(item.idx)
        IN  /\ \A i \in 1..max_length :
                /\ item.source_sequence[i] = padded[i]
                /\ item.target_sequence[i] =
                      IF item.source_sequence[i] = pad_id THEN IgnoreIndex
                      ELSE padded[i + 1]
            /\ \A i \in 1..(max_length - 1) :
                item.target_sequence[i] # IgnoreIndex =>
                    item.target_sequence[i] = item.source_sequence[i + 1]

\* an item with a masked target position followed by another source position
C7_Witness ==
    /\ Returned
    /\ \E i \in 1..(max_length - 1) :
        /\ item.target_sequence[i] = IgnoreIndex
        /\ item.source_sequence[i + 1] = pad_id

\* C8: with no pad_id among the tokens, a full sequence of max_length + 1 or
\* more tokens is cut to its first max_length + 1 tokens, gets no filler, an
\* all-False mask and no -100 target; a shorter one is kept whole and gets
\* exactly max_length + 1 - len pad_id fillers at its end.
C8_TruncateKeepsPrefix ==
    (Returned /\ NoPadToken) =>
        LET full   == FullOf(item.idx)
            padded == PaddedOf(item.idx)
        IN  IF FullLen >= max_length + 1
            THEN /\ padded = [i \in 1..(max_length + 1) |-> full[i]]
                 /\ \A i \in 1..max_length :
                        /\ ~item.key_padding_mask[i]
                        /\ item.target_sequence[i] # IgnoreIndex
            ELSE /\ Len(padded) = max_length + 1
                 /\ \A i \in 1..FullLen : padded[i] = full[i]
                 /\ \A i \in (FullLen + 1)..(max_length + 1) : padded[i] = pad_id
                 /\ Cardinality({i \in 1..(max_length + 1) : padded[i] = pad_id})
                        = max_length + 1 - FullLen

\* an item cut from a row of two different token kinds, longer than max_length + 1
C8_Witness ==
    /\ Returned /\ NoPadToken
    /\ FullLen > max_length + 1
    /\ Len(QuestionIds(item.idx)) > 0
    /\ \A i \in 1..max_length : ~item.key_padding_mask[i]

\* C10: with max_length >= 1 and no pad_id among the tokens,
\* key_padding_mask[0] is False, the True entries form a suffix, and every
\* query position i has a key position j <= i that neither the causal mask
\* blocks nor the padding mask marks.
C10_EveryQueryHasAKey ==
    (Returned /\ NoPadToken) =>
        /\ ~item.key_padding_mask[1]
        /\ \A i \in 1..max_length : \A j \in i..max_length :
               item.key_padding_mask[i] => item.key_padding_mask[j]
        /\ \A i \in 1..max_length : \E j \in 1..i :
               /\ ~GenerateCausalMask(max_length)[i][j]
               /\ ~item.key_padding_mask[j]

\* an item of an empty question and an empty answer, padded at its end
C10_Witness ==
    /\ Returned /\ NoPadToken
    /\ Len(QuestionIds(item.idx)) = 0
    /\ item.key_padding_mask[max_length]
    /\ ~item.key_padding_mask[1]


----------------------------------------------------------------------------
(* Properties of TransformerModel *)

seq_len == Len(xA)

\* C3: generate_causal_mask(n)[i][j] is True exactly when j > i, and the mask
\* forward trims from the buffer, causal_mask[:seq_len, :seq_len], is
\* generate_causal_mask(seq_len) for every seq_len <= max_len.
C3_CausalMaskBlocksLater ==
    /\ \A i \in 1..max_len : \A j \in 1..max_len : causal_mask[i][j] <=> (j > i)
    /\ pc # "idle" =>
        /\ attn_mask = GenerateCausalMask(seq_len)
        /\ \A i \in 1..seq_len : \A j \in 1..seq_len : attn_mask[i][j] <=> (j > i)

\* forward runs on a batch shorter than max_len
C3_Witness ==
    /\ pc = "layers"
    /\ seq_len >= 2 /\ seq_len < max_len
    /\ attn_mask = Trim(causal_mask, seq_len)
    /\ attn_mask[1][2] /\ ~attn_mask[2][2]

\* the operations forward has applied, in order
Ops == [k \in 1..Len(calls) |-> calls[k].op]

\* the operations of a whole forward pass over n layers
PassOrder(n) ==
    <<"embedding", "pos_encoder", "dropout">> \o [k \in 1..n |-> "layer"]
        \o <<"fc_out">>

\* C9: the logits at position i depend only on the tokens at positions 0..i:
\* two runs whose inputs agree on 0..i have the same logits at i, for every
\* seq_len <= max_len and every number of layers; every layer is called with
\* the same trimmed causal mask and padding mask, and the layers run in list
\* order after embedding and positional encoding and before the projection.
C9_OutputIsCausal ==
    /\ pc = "done" =>
        /\ \A i \in 1..seq_len :
              (\A j \in 1..i : xA[j] = xB[j]) => hA[i] = hB[i]
        /\ Ops = PassOrder(num_layers)
    /\ \A k \in 1..Len(calls) :
          calls[k].op = "layer" =>
              /\ calls[k].layer = k - 3
              /\ calls[k].attn_mask = Trim(causal_mask, seq_len)
              /\ calls[k].padding_mask = padding_mask

\* two runs through at least two layers, with a padding mask, on inputs that
\* differ only at the last position: the logits differ only there
C9_Witness ==
    /\ pc = "done"
    /\ num_layers >= 2 /\ seq_len >= 2
    /\ padding_mask # None /\ \A j \in 1..seq_len : ~padding_mask[j]
    /\ \A j \in 1..(seq_len - 1) : xA[j] = xB[j] /\ hA[j] = hB[j]
    /\ xA[seq_len] # xB[seq_len]
    /\ hA[seq_len] # hB[seq_len]


====
